---- MODULE Spec2Model ----
(***************************************************************************)
(* vite-plugin-cross-origin-storage.                                       *)
(*                                                                         *)
(* Two state machines share this module:                                   *)
(*                                                                         *)
(*   Spec       the runtime loader (src/loader.js): one run of the async   *)
(*              IIFE, its recursive resolveChunk modelled with an explicit *)
(*              call stack, one action per await boundary at which the     *)
(*              browser (store, network) answers.                          *)
(*   SpecBuild  the plugin's generateBundle hook (src/index.ts, the        *)
(*              current definition at lines 261-453).                      *)
(*                                                                         *)
(* A chunk's code is a sequence of module references; what the regular     *)
(* expressions and split/join calls of the source do to the text is        *)
(* modelled by what they do to each reference, according to its syntactic  *)
(* form.                                                                   *)
(***************************************************************************)
EXTENDS Integers, Sequences, FiniteSets, TLC

----------------------------------------------------------------------------
(* Bounds *)

\* Largest number of module references in the served code of one run.
MaxRefs == 3
\* Largest number of chunks in a bundle, and of module references in it.
MaxChunks == 3
MaxImports == 1

----------------------------------------------------------------------------
(* Values *)

\* Output file names of the non-entry chunks and of the entry chunk.
ChunkNames == {"a.js", "b.js", "c.js"}
EntryName == "index.js"
FileNames == ChunkNames \cup {EntryName}

\* resolveChunk's `return null`, and "no value yet".
Null == "null"
Unset == "unset"
\* No import() has been issued.
NotImported == <<>>

\* Syntactic forms of a reference to "./<dep>" in a chunk's text:
\*   from1  `... from "./dep"`  (import or re-export, one blank after from)
\*   from0  `...from"./dep"`    (minified, nothing after from)
\*   dyn    `import("./dep")`
Forms == {"from1", "from0", "dyn"}

\* A reference: the file name after "./", its form, and whether its
\* specifier has been replaced by the shim URL of that file.
Refs == [dep : ChunkNames, form : Forms, url : BOOLEAN]
SourceRefs == {r \in Refs : ~r.url}

\* The code of a chunk with exactly n references.
CodesOfLen(n) == [1..n -> SourceRefs]

\* The text of a chunk: its references and, standing for everything else in
\* it, the name of the file.
TextOf(fileName, refs) == [body |-> fileName, refs |-> refs]

\* SHA-256 of a text: collision-free, and the store answers a digest with
\* the bytes it was computed from.
Sha256(text) == <<"SHA-256", text>>
BytesOf(hash) == hash[2]

----------------------------------------------------------------------------
(* State *)

VARIABLES
  \* ---- inputs of one loader run
  manifest,        \* __COS_MANIFEST__: [index, chunks]
  served,          \* references of the file the server answers chunk.file with
  \* ---- src/loader.js
  pc,              \* position of the async IIFE
  isCOSAvailable,  \* loader.js:4
  resolvedUrls,    \* loader.js:57  fileName -> [blobUrl, shimUrl]
  processing,      \* loader.js:58
  rawContent,      \* loader.js:61  fileName -> text
  stack,           \* active resolveChunk invocations, outermost first
  res,             \* loader.js:156 result of the top-level resolveChunk
  imported,        \* the shim URL handed to import(), loader.js:160
  \* ---- the browser, as seen by this run
  store,           \* digests the cross-origin store is known to hold
  writeState,      \* fileName -> state of the storeBlobInCOS task started for it
  \* ---- history
  probes,          \* evaluations of 'crossOriginStorage' in navigator
  cosReads,        \* fileName -> read requests issued for its hash
  cosWrites,       \* fileName -> create requests issued for its hash
  fetches,         \* fileName -> fetch(chunk.file) calls issued
  cosResult,       \* fileName -> "none", "file" or the kind of miss
  fetchResult,     \* fileName -> "none" | "ok" | "failed"
  \* ---- src/index.ts, generateBundle
  bundle,          \* the chunks of the OutputBundle, in key order
  buildPc,         \* position in generateBundle
  managedChunkNames,  \* index.ts:323
  mainChunk,       \* index.ts:292  position of the entry chunk, 0 for none
  target,          \* index.ts:349  position of targetChunk in allChunks
  \* ---- src/unnamed/part_000, the loader that publishes global variables
  window,          \* fileName -> the Blob URL in window[chunk.globalVar]
  loads            \* fileName -> position of its callback under Promise.all

loaderVars == <<pc, isCOSAvailable, resolvedUrls, processing, rawContent, stack,
                res, imported, store, writeState, probes, cosReads, cosWrites,
                fetches, cosResult, fetchResult>>
buildVars == <<bundle, buildPc, managedChunkNames, mainChunk, target>>
globalVars == <<window, loads>>
vars == <<manifest, served, loaderVars, buildVars, globalVars>>

----------------------------------------------------------------------------
(* src/loader.js *)

mainEntry == manifest.index
\* Managed chunks are the records with a hash, keyed by fileName.
chunksByFileName == manifest.chunks

\* The manifest generateBundle assembles (Step 4): one hashed record per
\* managed chunk, with the digest of its final code, and the index record
\* naming the entry chunk.
ManifestOf(managedCode, entryFileName, defaults) ==
  [index  |-> [fileName |-> entryFileName],
   chunks |-> [f \in DOMAIN managedCode |->
                 [fileName |-> f, hash |-> Sha256(TextOf(f, managedCode[f])),
                  hasDefault |-> f \in defaults]]]

\* depRegex /from\s+['"]\.\/([^'"]+)['"]/g needs white space after `from`.
Discovered(ref) == ~ref.url /\ ref.form = "from1"

\* deps: a Set, iterated in insertion order, one element per distinct name.
RECURSIVE DepsOf(_)
DepsOf(code) ==
  IF code = <<>> THEN <<>>
  ELSE LET before == DepsOf(SubSeq(code, 1, Len(code) - 1))
           last   == code[Len(code)]
       IN IF Discovered(last) /\ \A i \in 1..Len(before) : before[i] # last.dep
          THEN Append(before, last.dep)
          ELSE before

\* The four split/join replacements cover `from "./dep"`, `from './dep'`,
\* `import("./dep")` and `import('./dep')`.
Replaceable(ref) == ~ref.url /\ ref.form \in {"from1", "dyn"}

Replace(code, replacements) ==
  [i \in 1..Len(code) |->
     IF Replaceable(code[i])
        /\ \E j \in 1..Len(replacements) : replacements[j].dep = code[i].dep
     THEN [code[i] EXCEPT !.url = TRUE]
     ELSE code[i]]

BlobUrl(fileName, code) == [blob |-> fileName, code |-> code]
NeverForwardsDefault(fileName) == FALSE

\* Line 141: chunk.hasDefault decides on the second statement of the shim.
ForwardsDefault(fileName) == chunksByFileName[fileName].hasDefault

\* Lines 141-142: the shim module as a data: URL: `export * from` the Blob
\* URL of the chunk and, with hasDefault, `export { default } from` it.
ShimUrl(fileName, blobUrl) ==
  <<"data:text/javascript",
    [exportAllFrom |-> blobUrl,
     exportDefaultFrom |-> IF ForwardsDefault(fileName)
                           THEN <<blobUrl>> ELSE <<>>]>>

Top == stack[Len(stack)]
Pop == SubSeq(stack, 1, Len(stack) - 1)

\* A resolveChunk invocation returns to the frames in base: null, or the
\* record of chunk val, whose shimUrl the caller pushes with line 119.
Deliver(base, val, shimUrl) ==
  IF base = <<>>
  THEN /\ stack' = <<>>
       /\ res' = val
       /\ pc' = "resolved"
  ELSE /\ stack' = [base EXCEPT ![Len(base)].replacements =
                      IF val # Null
                      THEN Append(@, [dep |-> val, url |-> shimUrl])
                      ELSE @]
       /\ pc' = "resolving"
       /\ UNCHANGED res

Frame(fileName, at, code) ==
  [fileName |-> fileName, pc |-> at, code |-> code,
   deps |-> DepsOf(code), replacements |-> <<>>]

StoreConsultedAlways == TRUE

\* Lines 23 and 39: getBlobFromCOS and storeBlobInCOS return at once, before
\* any request, unless the capability was found.
StoreConsulted == isCOSAvailable

\* loadRawContent up to its first answer from the browser.
LoadRawContent(fileName, base) ==
  IF fileName \in DOMAIN rawContent
  THEN /\ stack' = Append(base, Frame(fileName, "deps", rawContent[fileName]))
       /\ UNCHANGED <<cosReads, fetches>>
  ELSE IF StoreConsulted
  THEN /\ stack' = Append(base, Frame(fileName, "handles", <<>>))
       /\ cosReads' = [cosReads EXCEPT ![fileName] = @ + 1]
       /\ UNCHANGED fetches
  ELSE /\ stack' = Append(base, Frame(fileName, "fetch", <<>>))
       /\ fetches' = [fetches EXCEPT ![fileName] = @ + 1]
       /\ UNCHANGED cosReads

NotYetResolved(fileName) == FALSE

\* Line 85: `if (resolvedUrls[fileName]) return resolvedUrls[fileName]`.
AlreadyResolved(fileName) == fileName \in DOMAIN resolvedUrls

\* resolveChunk(fileName) called from the frames in base, up to its first
\* await on the browser.
ResolveChunk(fileName, base) ==
  IF AlreadyResolved(fileName)
  THEN /\ Deliver(base, fileName, resolvedUrls[fileName].shimUrl)
       /\ UNCHANGED <<processing, cosReads, fetches>>
  ELSE IF fileName \in processing
  THEN /\ Deliver(base, Null, <<>>)
       /\ UNCHANGED <<processing, cosReads, fetches>>
  ELSE /\ processing' = processing \cup {fileName}
       /\ IF fileName \notin DOMAIN chunksByFileName
          THEN /\ Deliver(base, Null, <<>>)
               /\ UNCHANGED <<cosReads, fetches>>
          ELSE /\ LoadRawContent(fileName, base)
               /\ pc' = "resolving"
               /\ UNCHANGED res

\* Lines 1-15: the capability is read once into a const; the index record is
\* always present in a manifest.
Probe ==
  /\ pc = "start"
  /\ \E available \in BOOLEAN : isCOSAvailable' = available
  /\ probes' = probes + 1
  /\ pc' = "init"
  /\ UNCHANGED <<buildVars, globalVars, manifest, served, resolvedUrls, processing, rawContent, stack,
                 res, imported, store, writeState, cosReads, cosWrites, fetches,
                 cosResult, fetchResult>>

\* Lines 150-156: resolveChunk(mainEntry.fileName).
Initialize ==
  /\ pc = "init"
  /\ ResolveChunk(mainEntry.fileName, <<>>)
  /\ UNCHANGED <<buildVars, globalVars, manifest, served, isCOSAvailable, resolvedUrls, rawContent,
                 imported, store, writeState, probes, cosWrites, cosResult,
                 fetchResult>>

\* Lines 117-118: the next dependency of the innermost invocation.
ResolveDependency ==
  /\ pc = "resolving"
  /\ stack # <<>>
  /\ Top.pc = "deps"
  /\ Top.deps # <<>>
  /\ ResolveChunk(Head(Top.deps),
                  [stack EXCEPT ![Len(stack)].deps = Tail(@)])
  /\ UNCHANGED <<buildVars, globalVars, manifest, served, isCOSAvailable, resolvedUrls, rawContent,
                 imported, store, writeState, probes, cosWrites, cosResult,
                 fetchResult>>

FetchAlways(gotBlob) == TRUE

\* Line 67: the network is asked only when the store gave no blob.
FetchNeeded(gotBlob) == ~gotBlob

\* The ways a read request can end without a file.
Misses == {"NotFoundError", "error", "noHandles"}

RethrownUnlessNotFound(outcome) == outcome = "error"

\* Lines 31-35: the catch block of getBlobFromCOS lets no error out; it only
\* logs the ones that are not NotFoundError.
Rethrown(outcome) == FALSE

\* Lines 25-35 and 66-70: the store answers the read request. A file is a
\* hit; NotFoundError, any other error and an empty handle list all leave
\* blob null, and then fetch(chunk.file) is issued. An error out of
\* getBlobFromCOS would end the run in the catch block of line 164.
RequestFileHandlesDone ==
  /\ pc = "resolving"
  /\ stack # <<>>
  /\ Top.pc = "handles"
  /\ LET f == Top.fileName
         h == chunksByFileName[f].hash
     IN \E outcome \in {"file"} \cup Misses :
          /\ outcome = "NotFoundError" => h \notin store
          /\ LET gotBlob == outcome = "file"
                 code == IF gotBlob THEN BytesOf(h).refs ELSE <<>>
             IN /\ cosResult' = [cosResult EXCEPT ![f] = outcome]
                /\ store' = IF gotBlob THEN store \cup {h} ELSE store
                /\ IF Rethrown(outcome)
                   THEN /\ stack' = <<>>
                        /\ pc' = "done"
                        /\ UNCHANGED <<rawContent, fetches>>
                   ELSE IF FetchNeeded(gotBlob)
                   THEN /\ fetches' = [fetches EXCEPT ![f] = @ + 1]
                        /\ stack' = [stack EXCEPT ![Len(stack)].pc = "fetch"]
                        /\ UNCHANGED <<pc, rawContent>>
                   ELSE /\ rawContent' = (f :> code) @@ rawContent
                        /\ stack' = [stack EXCEPT
                                       ![Len(stack)] = Frame(f, "deps", code)]
                        /\ UNCHANGED <<pc, fetches>>
  /\ UNCHANGED <<buildVars, globalVars, manifest, served, isCOSAvailable, resolvedUrls, processing,
                 res, imported, writeState, probes, cosReads, cosWrites,
                 fetchResult>>

ProcessingCleared(fileName) == processing \ {fileName}

\* Line 104 returns without processing.delete(fileName).
ProcessingAfterNull(fileName) == processing

NoWriteBack(fileName) == 0

\* Line 73 with line 39: one unawaited storeBlobInCOS per fetched blob, which
\* issues its create request only when the store exists.
WritesStarted(fileName) == IF StoreConsulted THEN 1 ELSE 0

\* Lines 70-81 and 103-104: the network answers. A response that is not ok
\* and a rejected fetch both end in `return null`.
FetchDone ==
  /\ pc = "resolving"
  /\ stack # <<>>
  /\ Top.pc = "fetch"
  /\ LET f == Top.fileName
     IN \E ok \in BOOLEAN :
          IF ok
          THEN /\ fetchResult' = [fetchResult EXCEPT ![f] = "ok"]
               /\ cosWrites' = [cosWrites EXCEPT ![f] = @ + WritesStarted(f)]
               /\ writeState' = [writeState EXCEPT ![f] =
                                   IF WritesStarted(f) > 0 THEN "pending" ELSE @]
               /\ rawContent' = (f :> served[f]) @@ rawContent
               /\ stack' = [stack EXCEPT
                              ![Len(stack)] = Frame(f, "deps", served[f])]
               /\ UNCHANGED <<pc, res, processing>>
          ELSE /\ fetchResult' = [fetchResult EXCEPT ![f] = "failed"]
               /\ processing' = ProcessingAfterNull(f)
               /\ Deliver(Pop, Null, <<>>)
               /\ UNCHANGED <<cosWrites, writeState, rawContent>>
  /\ UNCHANGED <<buildVars, globalVars, manifest, served, isCOSAvailable, resolvedUrls, imported, store,
                 probes, cosReads, fetches, cosResult>>

\* Lines 124-146: all dependencies asked for; substitute, make the Blob URL
\* and the shim, record them and return the record.
Materialize ==
  /\ pc = "resolving"
  /\ stack # <<>>
  /\ Top.pc = "deps"
  /\ Top.deps = <<>>
  /\ LET f == Top.fileName
         code == Replace(Top.code, Top.replacements)
     IN /\ resolvedUrls' =
             (f :> [blobUrl |-> BlobUrl(f, code),
                    shimUrl |-> ShimUrl(f, BlobUrl(f, code))]) @@ resolvedUrls
        /\ processing' = processing \ {f}
        /\ Deliver(Pop, f, ShimUrl(f, BlobUrl(f, code)))
  /\ UNCHANGED <<buildVars, globalVars, manifest, served, isCOSAvailable, rawContent, imported, store,
                 writeState, probes, cosReads, cosWrites, fetches, cosResult,
                 fetchResult>>

StartAppUnawaited ==
  /\ pc \in {"resolving", "resolved"}
  /\ imported' = <<"data:text/javascript">>
  /\ pc' = "done"
  /\ UNCHANGED <<buildVars, globalVars, manifest, served, isCOSAvailable, resolvedUrls, processing,
                 rawContent, stack, res, store, writeState, probes, cosReads,
                 cosWrites, fetches, cosResult, fetchResult>>

\* Lines 156-163: once the awaited resolveChunk call has returned, import
\* the shim of the main entry, or log the failure.
StartApp ==
  /\ pc = "resolved"
  /\ imported' = IF res # Null THEN resolvedUrls[res].shimUrl ELSE imported
  /\ pc' = "done"
  /\ UNCHANGED <<buildVars, globalVars, manifest, served, isCOSAvailable, resolvedUrls, processing,
                 rawContent, stack, res, store, writeState, probes, cosReads,
                 cosWrites, fetches, cosResult, fetchResult>>

\* Lines 41-44: the create request of the task started for fileName.
WriteKey(fileName) ==
  [algorithm |-> "SHA-256", value |-> chunksByFileName[fileName].hash,
   create |-> TRUE]

StoreBlobInCOSRethrows ==
  /\ \E f \in ChunkNames :
       /\ writeState[f] = "pending"
       /\ \E written \in BOOLEAN :
            /\ writeState' = [writeState EXCEPT ![f] =
                                IF written THEN "stored" ELSE "failed"]
            /\ store' = IF written
                        THEN store \cup {WriteKey(f).value}
                        ELSE store
            /\ resolvedUrls' =
                 IF written THEN resolvedUrls
                 ELSE [g \in DOMAIN resolvedUrls \ {f} |-> resolvedUrls[g]]
  /\ UNCHANGED <<buildVars, globalVars, manifest, served, pc, isCOSAvailable, processing,
                 rawContent, stack, res, imported, probes, cosReads, cosWrites,
                 fetches, cosResult, fetchResult>>

\* Lines 41-53: a storeBlobInCOS task ends, either with the blob written and
\* closed or with an error (or no handle), which is only logged.
StoreBlobInCOSDone ==
  /\ \E f \in ChunkNames :
       /\ writeState[f] = "pending"
       /\ \E written \in BOOLEAN :
            /\ writeState' = [writeState EXCEPT ![f] =
                                IF written THEN "stored" ELSE "failed"]
            /\ store' = IF written
                        THEN store \cup {WriteKey(f).value}
                        ELSE store
  /\ UNCHANGED <<buildVars, globalVars, manifest, served, pc, isCOSAvailable, resolvedUrls, processing,
                 rawContent, stack, res, imported, probes, cosReads, cosWrites,
                 fetches, cosResult, fetchResult>>

----------------------------------------------------------------------------
(* Runs of the loader *)

\* No build is running.
\* No global-variable loader is running.
GlobalIdle ==
  /\ window = <<>>
  /\ loads = [f \in ChunkNames |-> "none"]

BuildIdle ==
  /\ bundle = <<>>
  /\ buildPc = "idle"
  /\ managedChunkNames = {}
  /\ mainChunk = 0
  /\ target = 0

\* The chunks a.js, b.js, c.js are managed in this order (file names are
\* interchangeable), and the served code holds at most MaxRefs references.
\* The index record names the entry chunk, as generateBundle writes it, or
\* a hashed record (the loader takes whatever replaces __COS_MANIFEST__).
\* Served code is what generateBundle leaves in a managed chunk: every
\* reference rewritten to "./<fileName>".
ManagedSets == {{}, {"a.js"}, {"a.js", "b.js"}, {"a.js", "b.js", "c.js"}}

LoaderInit(anyDefault) ==
  /\ \E managed \in ManagedSets, entry \in {EntryName, "a.js"} :
     \E defaults \in IF anyDefault
                      THEN {d \in SUBSET managed : Cardinality(d) <= 1}
                      ELSE {{}} :
     \E na \in 0..(IF "a.js" \in managed THEN MaxRefs ELSE 0) :
     \E nb \in 0..(IF "b.js" \in managed THEN MaxRefs - na ELSE 0) :
     \E nc \in 0..(IF "c.js" \in managed THEN MaxRefs - na - nb ELSE 0) :
     \E ca \in CodesOfLen(na), cb \in CodesOfLen(nb), cc \in CodesOfLen(nc) :
       LET code == [f \in managed |->
                      CASE f = "a.js" -> ca [] f = "b.js" -> cb [] OTHER -> cc]
       IN /\ manifest = ManifestOf(code, entry, defaults)
          /\ served = code
  /\ pc = "start"
  /\ isCOSAvailable = FALSE
  /\ resolvedUrls = <<>>
  /\ processing = {}
  /\ rawContent = <<>>
  /\ stack = <<>>
  /\ res = Unset
  /\ imported = NotImported
  /\ store = {}
  /\ writeState = [f \in ChunkNames |-> "none"]
  /\ probes = 0
  /\ cosReads = [f \in ChunkNames |-> 0]
  /\ cosWrites = [f \in ChunkNames |-> 0]
  /\ fetches = [f \in ChunkNames |-> 0]
  /\ cosResult = [f \in ChunkNames |-> "none"]
  /\ fetchResult = [f \in ChunkNames |-> "none"]
  /\ BuildIdle
  /\ GlobalIdle

\* Runs over chunks without a default export.
Init == LoaderInit(FALSE)

Next ==
  \/ Probe
  \/ Initialize
  \/ ResolveDependency
  \/ RequestFileHandlesDone
  \/ FetchDone
  \/ Materialize
  \/ StartApp
  \/ StoreBlobInCOSDone

Spec == Init /\ [][Next]_vars

\* A chunk whose store read or network fetch the browser may leave
\* unanswered for ever.
StalledChunk == "b.js"

\* Runs from a manifest whose index record names a hashed record, with
\* every reference in the form the loader discovers.
InitStall ==
  /\ Init
  /\ mainEntry.fileName \in DOMAIN chunksByFileName
  /\ \A f \in DOMAIN served : \A i \in 1..Len(served[f]) :
       served[f][i].form = "from1"

\* The loader's own steps follow as soon as they can (one async function on
\* the event loop), and the browser answers every read and fetch except,
\* possibly, those of StalledChunk. A store write may never end.
SpecStall ==
  /\ InitStall
  /\ [][Next]_vars
  /\ WF_vars(Probe)
  /\ WF_vars(Initialize)
  /\ WF_vars(ResolveDependency)
  /\ WF_vars(Materialize)
  /\ WF_vars(StartApp)
  /\ WF_vars(RequestFileHandlesDone /\ Top.fileName # StalledChunk)
  /\ WF_vars(FetchDone /\ Top.fileName # StalledChunk)

\* Runs in which at most one chunk has a default export, from a manifest
\* whose index record names a hashed record, with every reference in the
\* form the loader discovers.
InitShim ==
  /\ LoaderInit(TRUE)
  /\ mainEntry.fileName \in DOMAIN chunksByFileName
  /\ \A f \in DOMAIN served : \A i \in 1..Len(served[f]) :
       served[f][i].form = "from1"

SpecShim == InitShim /\ [][Next]_vars

----------------------------------------------------------------------------
(* Properties of the loader *)

Managed == DOMAIN chunksByFileName
Resolved == DOMAIN resolvedUrls
\* The top-level resolveChunk call has returned.
Returned == pc \in {"resolved", "done"}

\* The chunk graph of the served code: f refers to g, by any form of
\* reference, or by a `from "./g"` clause.
RefersTo(f, g) == \E i \in 1..Len(served[f]) : served[f][i].dep = g
ImportsFrom(f, g) ==
  \E i \in 1..Len(served[f]) :
    served[f][i].dep = g /\ served[f][i].form = "from1"

\* The edges followed: every reference ("any") or `from "./g"` clauses only.
Edge(kind, f, g) == IF kind = "any" THEN RefersTo(f, g) ELSE ImportsFrom(f, g)

RECURSIVE ReachFrom(_, _, _)
ReachFrom(S, kind, n) ==
  IF n = 0 THEN S
  ELSE ReachFrom(S \cup {g \in ChunkNames :
                           \E f \in S \cap Managed : Edge(kind, f, g)},
                 kind, n - 1)

\* Chunks reached from f in one or more steps.
Successors(f, kind) ==
  ReachFrom({g \in ChunkNames : f \in Managed /\ Edge(kind, f, g)}, kind,
            Cardinality(ChunkNames))

\* The materialized code behind a resolved chunk's Blob URL.
Materialized(f) == resolvedUrls[f].blobUrl.code

\* The index record is the one generateBundle writes: it names the entry
\* chunk, which never gets a hashed record.
EmittedByGenerateBundle == mainEntry.fileName \notin Managed

NothingFailed ==
  \A f \in ChunkNames :
    /\ fetchResult[f] # "failed"
    /\ writeState[f] # "failed"
    /\ cosResult[f] \notin Misses \/ fetchResult[f] # "none"

\* C1: with a manifest emitted by generateBundle and every
\* store and network operation successful, the run ends with resolveChunk
\* of the entry file name having returned a reference and the import of
\* the entry issued.
C1_BootstrapImportsEntry ==
  (pc = "done" /\ EmittedByGenerateBundle /\ NothingFailed)
    => (res # Null /\ imported # NotImported)

\* C2: a chunk whose store read returned a file has had no network fetch
\* and no store write issued for it.
C2_CacheHitNoNetwork ==
  \A f \in ChunkNames :
    cosResult[f] = "file" =>
      /\ isCOSAvailable
      /\ fetches[f] = 0
      /\ cosWrites[f] = 0
      /\ writeState[f] = "none"

C2_Witness ==
  \E f \in ChunkNames :
    cosResult[f] = "file" /\ f \in Resolved /\ pc = "done" /\ imported # NotImported

\* C3: a chunk whose store read missed and whose fetch succeeded has had
\* exactly one fetch and exactly one create request, issued after the
\* fetch and keyed by {SHA-256, its manifest hash}; once that write has
\* completed the store holds the hash.
C3_CacheMissFetchesOnceWritesOnce ==
  \A f \in ChunkNames :
    /\ (cosResult[f] \in Misses /\ fetchResult[f] = "ok") =>
         /\ fetches[f] = 1
         /\ cosWrites[f] = 1
         /\ writeState[f] \in {"pending", "stored", "failed"}
         /\ WriteKey(f) = [algorithm |-> "SHA-256",
                           value |-> manifest.chunks[f].hash, create |-> TRUE]
         /\ writeState[f] = "stored" => manifest.chunks[f].hash \in store
    /\ cosWrites[f] > 0 => fetchResult[f] = "ok"

C3_Witness ==
  \E f \in ChunkNames :
    /\ cosResult[f] \in Misses /\ fetchResult[f] = "ok"
    /\ writeState[f] = "stored" /\ f \in Resolved

\* C4: no file name is fetched more than once in a run.
C4_AtMostOneFetchPerFileName ==
  \A f \in ChunkNames : fetches[f] <= 1

\* A chunk whose fetch failed and that two resolved chunks import.
C4_Witness ==
  \E f \in ChunkNames :
    /\ fetchResult[f] = "failed"
    /\ \E g, h \in Resolved :
         g # h /\ ImportsFrom(g, f) /\ ImportsFrom(h, f)

\* C5: the capability is read once, before any chunk is resolved; when it
\* is absent no read or create request is ever issued, every resolved chunk
\* got its bytes from exactly one successful fetch, and every chunk whose
\* fetch succeeded is resolved when the top-level call returns.
C5_StoreAbsentPureNetwork ==
  /\ probes <= 1
  /\ pc # "start" => probes = 1
  /\ pc = "start" => (stack = <<>> /\ processing = {} /\ Resolved = {})
  /\ (pc # "start" /\ ~isCOSAvailable) =>
       \A f \in ChunkNames :
         /\ cosReads[f] = 0
         /\ cosWrites[f] = 0
         /\ cosResult[f] = "none"
         /\ f \in Resolved => (fetches[f] = 1 /\ fetchResult[f] = "ok")
         /\ (Returned /\ fetchResult[f] = "ok") => f \in Resolved

C5_Witness ==
  /\ pc = "done"
  /\ ~isCOSAvailable
  /\ \E f, g \in Resolved : f # g
  /\ imported # NotImported

\* f lies on a cycle of the chunk graph.
OnCycle(f) == f \in Successors(f, "any")

\* C6: when the top-level call was made on a managed chunk and
\* has returned with nothing failed, every chunk on a cycle that the
\* top-level chunk reaches (or lies on) has an entry in resolvedUrls.
C6_CycleChunksResolved ==
  (Returned /\ mainEntry.fileName \in Managed /\ NothingFailed) =>
    \A f \in Managed :
      (OnCycle(f) /\ f \in {mainEntry.fileName}
                          \cup Successors(mainEntry.fileName, "any"))
        => f \in Resolved

\* Every reference from f to g of a form the loader discovers has been
\* replaced by a URL in f's materialized code.
Substituted(f, g) ==
  \A i \in 1..Len(Materialized(f)) :
    (Materialized(f)[i].dep = g /\ Materialized(f)[i].form = "from1")
      => Materialized(f)[i].url

\* C7: once two chunks that import each other are both
\* resolved, each one's reference to the other has been replaced by a
\* loadable reference.
C7_MutualReferencesSubstituted ==
  \A f, g \in ChunkNames :
    (f # g /\ f \in Resolved /\ g \in Resolved
       /\ ImportsFrom(f, g) /\ ImportsFrom(g, f))
      => (Substituted(f, g) /\ Substituted(g, f))

\* C8: a chunk whose fetch failed is never resolved, no chunk
\* that imports it directly or transitively is resolved, and when the
\* top-level chunk is or imports such a chunk, no import is issued.
C8_FetchFailurePropagates ==
  \A x \in ChunkNames :
    fetchResult[x] = "failed" =>
      /\ x \notin Resolved
      /\ \A f \in Managed : x \in Successors(f, "from") => f \notin Resolved
      /\ (mainEntry.fileName = x
            \/ x \in Successors(mainEntry.fileName, "from"))
           => imported = NotImported

\* C9: a resolved managed chunk that imports an unmanaged
\* chunk caused no store read for it and holds a loadable reference in
\* place of its relative specifier.
C9_UnmanagedDependencyBound ==
  \A f \in Resolved, g \in ChunkNames \ Managed :
    ImportsFrom(f, g) => (cosReads[g] = 0 /\ Substituted(f, g))

\* C12: when the import of the entry has been issued no resolveChunk
\* invocation is pending, and every managed chunk whose resolution was
\* started is in resolvedUrls or ended with its fetch failed.
C12_NothingInFlightAtImport ==
  imported # NotImported =>
    /\ stack = <<>>
    /\ \A f \in Managed \cap processing :
         f \notin Resolved /\ fetchResult[f] = "failed"
    /\ \A f \in Managed :
         (cosReads[f] > 0 \/ fetches[f] > 0) =>
           (f \in Resolved \/ fetchResult[f] = "failed")

\* The import issued after three chunks were started, one of which failed.
C12_Witness ==
  /\ imported # NotImported
  /\ \E f, g \in Resolved : f # g
  /\ \E x \in Managed : fetchResult[x] = "failed"

\* What resolution and the entry import consist of.
resolutionVars ==
  <<pc, stack, res, imported, resolvedUrls, processing, rawContent, cosReads,
    cosResult, fetches, fetchResult>>

\* C13: a chunk whose fetch succeeded is resolved when the top-level call
\* returns whatever became of its store write, and the end of a store write,
\* successful or not, changes nothing of the resolution or of the import.
C13_StoreWriteIsolated ==
  /\ [](\A f \in ChunkNames :
          (Returned /\ fetchResult[f] = "ok") => f \in Resolved)
  /\ [][(\E f \in ChunkNames :
           writeState[f] = "pending" /\ writeState'[f] # "pending")
          => UNCHANGED resolutionVars]_vars

\* The import issued while the write of one resolved chunk has failed and
\* the write of another has not completed.
C13_Witness ==
  /\ imported # NotImported
  /\ \E f, g \in Resolved :
       writeState[f] = "failed" /\ writeState[g] = "pending"

\* C14: a read that ended in NotFoundError, in another error or without a
\* handle is followed by exactly one fetch of the chunk, fails nothing by
\* itself, and the chunk is resolved when the top-level call returns if
\* that fetch succeeded.
C14_ReadFailureAbsorbed ==
  \A f \in ChunkNames :
    cosResult[f] \in Misses =>
      /\ fetches[f] = 1
      /\ pc = "done" => res # Unset
      /\ (Returned /\ fetchResult[f] = "ok") => f \in Resolved

\* A finished run in which the three kinds of failed read were each followed
\* by a successful fetch and a resolved chunk.
C14_Witness ==
  /\ pc = "done"
  /\ imported # NotImported
  /\ \A kind \in Misses :
       \E f \in Resolved : cosResult[f] = kind /\ fetchResult[f] = "ok"

\* The load of f has been answered: a file from the store, or an answer
\* from the network.
LoadAnswered(f) == cosResult[f] = "file" \/ fetchResult[f] # "none"

\* C15: a managed chunk that the entry reaches and that does not depend on
\* StalledChunk is eventually resolved, unless the load of StalledChunk is
\* answered after all or some fetch fails.
C15_StallIsolation ==
  \A y \in ChunkNames \ {StalledChunk} :
    (/\ y \in Managed
     /\ y \in Successors(mainEntry.fileName, "from")
     /\ StalledChunk \notin Successors(y, "from"))
      => <>(\/ y \in Resolved
            \/ LoadAnswered(StalledChunk)
            \/ \E f \in ChunkNames : fetchResult[f] = "failed")

\* What the browser makes of import(shimUrl) of a resolved chunk: the
\* module behind the Blob URL links when each of its static references is a
\* URL whose module links in turn; a "./<dep>" specifier has no meaning
\* against a blob: base. Dynamic imports are not part of linking.
RECURSIVE Links(_, _)
Links(f, n) ==
  /\ f \in Resolved
  /\ \A i \in 1..Len(Materialized(f)) :
       LET ref == Materialized(f)[i]
       IN ref.form # "dyn" =>
            (ref.url /\ n > 0 /\ Links(ref.dep, n - 1))

\* The import of line 160 was issued and fulfilled: the entry module runs.
EntryStarted ==
  /\ imported # NotImported
  /\ res \in Resolved
  /\ Links(res, Cardinality(ChunkNames))

\* C16: when a chunk whose code the loader has read refers to a file name
\* that has no record in the manifest, the entry module is not started.
C16_MissingRecordFatal ==
  (\E f \in DOMAIN rawContent, g \in ChunkNames \ Managed : RefersTo(f, g))
    => ~EntryStarted

\* The module text behind a data: URL.
ShimOf(f) == resolvedUrls[f].shimUrl[2]

\* C19: the shim of every resolved chunk re-exports the namespace of the
\* chunk's own Blob URL, and re-exports `default` from it exactly when the
\* chunk's manifest record says hasDefault.
C19_DefaultForwarding ==
  \A f \in Resolved :
    /\ ShimOf(f).exportAllFrom = resolvedUrls[f].blobUrl
    /\ ShimOf(f).exportDefaultFrom =
         IF manifest.chunks[f].hasDefault
         THEN <<resolvedUrls[f].blobUrl>> ELSE <<>>

\* The import issued with a resolved chunk that has a default export and
\* one that has none.
C19_Witness ==
  /\ imported # NotImported
  /\ \E f, g \in Resolved :
       /\ manifest.chunks[f].hasDefault
       /\ ~manifest.chunks[g].hasDefault
       /\ ShimOf(f).exportDefaultFrom # <<>>
       /\ ShimOf(g).exportDefaultFrom = <<>>

\* The chunk graph has no cycle and refers to managed chunks only.
AcyclicAndManaged ==
  \A f \in Managed :
    /\ ~OnCycle(f)
    /\ \A g \in ChunkNames : RefersTo(f, g) => g \in Managed

\* C20: for an acyclic graph of managed chunks, when the run is over with
\* nothing failed, the entry module has started and every static import or
\* re-export of every chunk the entry reaches is bound, with the binding
\* clause it had, to the shim of the chunk it names.
C20_BindingsObservable ==
  (/\ pc = "done"
   /\ mainEntry.fileName \in Managed
   /\ AcyclicAndManaged
   /\ NothingFailed)
    => /\ EntryStarted
       /\ \A f \in {mainEntry.fileName}
                     \cup Successors(mainEntry.fileName, "any") :
            /\ f \in Resolved
            /\ \A i \in 1..Len(Materialized(f)) :
                 /\ Materialized(f)[i].form = served[f][i].form
                 /\ Materialized(f)[i].dep = served[f][i].dep
                 /\ Materialized(f)[i].form # "dyn" => Materialized(f)[i].url

----------------------------------------------------------------------------
(* src/index.ts: generateBundle *)

\* Output paths of chunks, as sequences of path segments.
BundlePaths ==
  {<<"a.js">>, <<"b.js">>, <<"assets", "a.js">>, <<"assets", "b.js">>}

\* path.dirname: <<>> stands for ".".
Dirname(fileName) == SubSeq(fileName, 1, Len(fileName) - 1)

RECURSIVE CommonPrefix(_, _)
CommonPrefix(p, q) ==
  IF p # <<>> /\ q # <<>> /\ Head(p) = Head(q)
  THEN 1 + CommonPrefix(Tail(p), Tail(q))
  ELSE 0

\* Lines 362-363: path.relative(importerDir, depFileName), with "./" put in
\* front unless the result starts with a dot.
RelPath(importerDir, depFileName) ==
  LET k    == CommonPrefix(importerDir, depFileName)
      ups  == [i \in 1..(Len(importerDir) - k) |-> ".."]
      rest == SubSeq(depFileName, k + 1, Len(depFileName))
  IN IF ups = <<>> THEN <<".">> \o rest ELSE ups \o rest

\* Line 370.
BareSpecifier(depFileName) == <<".">> \o depFileName

\* A reference in a chunk of the bundle: the chunk it was emitted for, its
\* form, its quoted specifier, and the dependencies whose pass of the inner
\* loop replaced the statement.
BuildRef(importer, dep, form) ==
  [target |-> dep, form |-> form,
   spec |-> RelPath(Dirname(importer), dep), rewrittenFor |-> <<>>]

\* Lines 375-391: staticRegex covers import and export statements with or
\* without a from clause, dynamicRegex covers import(...); both match on
\* the quoted specifier being relPath, and the replacement keeps the
\* keyword and the from part and writes "<bareSpecifier>".
Matches(ref, relPath) == ref.spec = relPath

RewriteStatement(ref, depFileName) ==
  [ref EXCEPT !.spec = BareSpecifier(depFileName),
              !.rewrittenFor = Append(@, depFileName)]

\* Line 361.
ShouldRewrite(isTargetManaged, isDepManaged) == isTargetManaged \/ isDepManaged

\* Lines 353-393: the inner loop over the keys of the bundle, from the k-th.
RECURSIVE RewriteDeps(_, _, _)
RewriteDeps(code, targetChunk, k) ==
  IF k > Len(bundle) THEN code
  ELSE LET depFileName == bundle[k].fileName
           relPath == RelPath(Dirname(targetChunk.fileName), depFileName)
           rewritten ==
             IF ShouldRewrite(targetChunk.fileName \in managedChunkNames,
                              depFileName \in managedChunkNames)
             THEN [j \in 1..Len(code) |->
                     IF Matches(code[j], relPath)
                     THEN RewriteStatement(code[j], depFileName)
                     ELSE code[j]]
             ELSE code
       IN RewriteDeps(rewritten, targetChunk, k + 1)

\* Lines 295-344: the entry chunk becomes mainChunk, every other chunk the
\* filter accepts is managed; without an entry chunk nothing else is done.
SelectChunks ==
  /\ buildPc = "start"
  /\ managedChunkNames' =
       {bundle[i].fileName : i \in {j \in 1..Len(bundle) :
                                      ~bundle[j].isEntry /\ bundle[j].filter}}
  /\ LET entries == {i \in 1..Len(bundle) : bundle[i].isEntry}
     IN mainChunk' = IF entries = {} THEN 0
                     ELSE CHOOSE i \in entries : \A j \in entries : j <= i
  /\ buildPc' = IF mainChunk' = 0 THEN "done" ELSE "rewrite"
  /\ target' = 1
  /\ UNCHANGED <<bundle, manifest, served, loaderVars, globalVars>>

\* Lines 349-394: one pass of the outer loop.
RewriteImports ==
  /\ buildPc = "rewrite"
  /\ bundle' = [bundle EXCEPT ![target].code =
                  RewriteDeps(@, bundle[target], 1)]
  /\ target' = target + 1
  /\ buildPc' = IF target = Len(bundle) THEN "manifest" ELSE "rewrite"
  /\ UNCHANGED <<managedChunkNames, mainChunk, manifest, served, loaderVars,
                 globalVars>>

\* The statements of a chunk as they stand in its text.
Statements(code) ==
  [j \in 1..Len(code) |-> [form |-> code[j].form, spec |-> code[j].spec]]

CodeAsEmitted(fileName) ==
  LET chunk == bundle[CHOOSE i \in 1..Len(bundle) :
                        bundle[i].fileName = fileName]
  IN Statements([j \in 1..Len(chunk.code) |->
                   BuildRef(fileName, chunk.code[j].target,
                            chunk.code[j].form)])

\* Line 403: chunk.code of a managed chunk, read in Step 4.
CodeOf(fileName) ==
  Statements(bundle[CHOOSE i \in 1..Len(bundle) :
                      bundle[i].fileName = fileName].code)

\* Line 407: chunk.exports.includes('default').
HasDefault(fileName) ==
  bundle[CHOOSE i \in 1..Len(bundle) :
           bundle[i].fileName = fileName].hasDefault

\* Lines 396-422: the hash of each managed chunk's code as it now is, and
\* the index record.
BuildManifest ==
  /\ buildPc = "manifest"
  /\ manifest' = ManifestOf([f \in managedChunkNames |-> CodeOf(f)],
                            bundle[mainChunk].fileName,
                            {f \in managedChunkNames : HasDefault(f)})
  /\ buildPc' = "done"
  /\ UNCHANGED <<bundle, managedChunkNames, mainChunk, target, served,
                 loaderVars, globalVars>>

\* No loader is running.
LoaderIdle ==
  /\ served = <<>>
  /\ pc = "idle"
  /\ isCOSAvailable = FALSE
  /\ resolvedUrls = <<>>
  /\ processing = {}
  /\ rawContent = <<>>
  /\ stack = <<>>
  /\ res = Unset
  /\ imported = NotImported
  /\ store = {}
  /\ writeState = [f \in ChunkNames |-> "none"]
  /\ probes = 0
  /\ cosReads = [f \in ChunkNames |-> 0]
  /\ cosWrites = [f \in ChunkNames |-> 0]
  /\ fetches = [f \in ChunkNames |-> 0]
  /\ cosResult = [f \in ChunkNames |-> "none"]
  /\ fetchResult = [f \in ChunkNames |-> "none"]
  /\ GlobalIdle

\* The imports of a bundle: (importer, dependency, form) by position, listed
\* importer by importer.
Imports(n) ==
  {t \in (1..n) \X (1..n) \X Forms : t[1] # t[2]}

\* A bundle of up to MaxChunks chunks with distinct output paths in any key
\* order, one of them the entry chunk (Rollup emits one for every input),
\* any answers of the filter, and up to MaxImports references as Rollup
\* emits them (the relative path from the importer's directory).
InitBuild ==
  /\ \E n \in 1..MaxChunks :
     \E names \in [1..n -> BundlePaths] :
       /\ \A i, j \in 1..n : i # j => names[i] # names[j]
       /\ \E entry \in 1..n, filter \in [1..n -> BOOLEAN], m \in 0..MaxImports :
          \E imports \in [1..m -> Imports(n)] :
            /\ \A i, j \in 1..m : i < j => imports[i][1] <= imports[j][1]
            /\ bundle =
                 [i \in 1..n |->
                    [fileName |-> names[i],
                     isEntry  |-> i = entry,
                     filter   |-> filter[i],
                     hasDefault |-> FALSE,
                     code     |->
                       LET own == SelectSeq(imports, LAMBDA t : t[1] = i)
                       IN [j \in 1..Len(own) |->
                             BuildRef(names[i], names[own[j][2]], own[j][3])]]]
  /\ buildPc = "start"
  /\ managedChunkNames = {}
  /\ mainChunk = 0
  /\ target = 0
  /\ manifest = [index |-> [fileName |-> <<>>], chunks |-> <<>>]
  /\ LoaderIdle

NextBuild ==
  \/ SelectChunks
  \/ RewriteImports
  \/ BuildManifest

SpecBuild == InitBuild /\ [][NextBuild]_vars

----------------------------------------------------------------------------
(* src/index.ts: the filter of cosPlugin *)

IncludeOnly(matchesInclude, matchesExclude) == matchesInclude

\* Line 262: createFilter(include, exclude) accepts an id that matches an
\* include pattern and no exclude pattern. Which names a pattern matches is
\* the pattern library's matter and is left open here.
CreateFilter(matchesInclude, matchesExclude) ==
  matchesInclude /\ ~matchesExclude

\* Bundles of chunks without imports, any of them entry chunks (at least
\* one), each matching or not the include and the exclude patterns.
InitSelect ==
  /\ \E n \in 1..MaxChunks :
     \E names \in [1..n -> BundlePaths] :
       /\ \A i, j \in 1..n : i # j => names[i] # names[j]
       /\ \E isEntry \in [1..n -> BOOLEAN],
             include \in [1..n -> BOOLEAN], exclude \in [1..n -> BOOLEAN],
             hasDefault \in [1..n -> BOOLEAN] :
            /\ \E i \in 1..n : isEntry[i]
            /\ bundle =
                 [i \in 1..n |->
                    [fileName |-> names[i],
                     isEntry  |-> isEntry[i],
                     matchesInclude |-> include[i],
                     matchesExclude |-> exclude[i],
                     filter   |-> CreateFilter(include[i], exclude[i]),
                     hasDefault |-> hasDefault[i],
                     code     |-> <<>>]]
  /\ buildPc = "start"
  /\ managedChunkNames = {}
  /\ mainChunk = 0
  /\ target = 0
  /\ manifest = [index |-> [fileName |-> <<>>], chunks |-> <<>>]
  /\ LoaderIdle

SpecSelect == InitSelect /\ [][NextBuild]_vars

----------------------------------------------------------------------------
(* Properties of generateBundle *)

\* Step 2 has run over every chunk.
RewritingDone == buildPc \in {"manifest", "done"} /\ mainChunk # 0

\* The pass for the reference's own target replaced the statement, writing
\* "./<target's output path>".
RewrittenForTarget(ref) ==
  \E k \in 1..Len(ref.rewrittenFor) : ref.rewrittenFor[k] = ref.target

\* The guard of line 361 alone: the pass for a reference's own target
\* replaces the statement exactly when the importer or the target is
\* managed.
RewriteGuardScope ==
  RewritingDone =>
    \A i \in 1..Len(bundle) : \A j \in 1..Len(bundle[i].code) :
      LET ref == bundle[i].code[j]
      IN RewrittenForTarget(ref) <=>
           (bundle[i].fileName \in managedChunkNames
              \/ ref.target \in managedChunkNames)

\* C10: once Step 2 is over, a reference from chunk I to chunk T carries
\* T's "./<output path>" specifier if I or T is managed, and is exactly the
\* statement Rollup emitted if neither is.
C10_RewriteScope ==
  RewritingDone =>
    \A i \in 1..Len(bundle) : \A j \in 1..Len(bundle[i].code) :
      LET importer == bundle[i].fileName
          ref      == bundle[i].code[j]
      IN IF importer \in managedChunkNames \/ ref.target \in managedChunkNames
         THEN ref.spec = BareSpecifier(ref.target)
         ELSE ref = BuildRef(importer, ref.target, ref.form)

\* A managed chunk's reference once generateBundle is over: its own target's
\* pass replaced the statement, and the pass of a chunk listed later in the
\* bundle replaced it again.
C10_Witness ==
  /\ buildPc = "done"
  /\ \E i \in 1..Len(bundle) : \E j \in 1..Len(bundle[i].code) :
       LET ref == bundle[i].code[j]
       IN /\ bundle[i].fileName \in managedChunkNames
          /\ RewrittenForTarget(ref)
          /\ ref.spec # BareSpecifier(ref.target)

\* C11: when generateBundle is over, the hash recorded for every managed
\* chunk is the SHA-256 of the code the chunk then has, so that no rewrite
\* of a managed chunk came after its hash was taken.
C11_HashOfFinalCode ==
  buildPc = "done" =>
    \A i \in 1..Len(bundle) :
      bundle[i].fileName \in managedChunkNames =>
        /\ bundle[i].fileName \in DOMAIN manifest.chunks
        /\ manifest.chunks[bundle[i].fileName].hash =
             Sha256(TextOf(bundle[i].fileName, Statements(bundle[i].code)))

\* A managed chunk whose code Step 2 changed, with its hash recorded.
C11_Witness ==
  /\ buildPc = "done"
  /\ \E i \in 1..Len(bundle) :
       /\ bundle[i].fileName \in DOMAIN manifest.chunks
       /\ \E j \in 1..Len(bundle[i].code) :
            bundle[i].code[j].spec #
              RelPath(Dirname(bundle[i].fileName), bundle[i].code[j].target)

\* chunk.imports and chunk.dynamicImports: the chunks a chunk refers to.
ImportsOf(fileName) ==
  LET chunk == bundle[CHOOSE i \in 1..Len(bundle) :
                        bundle[i].fileName = fileName]
  IN {chunk.code[j].target : j \in 1..Len(chunk.code)}

\* The chunks reached from a set of chunks in up to n steps.
RECURSIVE RequiredBy(_, _)
RequiredBy(S, n) ==
  IF n = 0 THEN S
  ELSE RequiredBy(S \cup UNION {ImportsOf(f) : f \in S}, n - 1)

\* C17: the manifest generateBundle leaves holds a record for every managed
\* chunk and for every other chunk that a managed chunk requires, directly
\* or through other chunks; the entry chunk's record is the index record.
C17_ManifestComplete ==
  buildPc = "done" =>
    \A f \in RequiredBy(managedChunkNames, Len(bundle)) :
      \/ f \in DOMAIN manifest.chunks
      \/ f = manifest.index.fileName

\* C18: once the chunks are selected, the managed set is exactly the set of
\* chunks that are not entry chunks, match the include pattern and do not
\* match the exclude pattern.
C18_ChunkSelection ==
  buildPc # "start" =>
    managedChunkNames =
      {bundle[i].fileName :
         i \in {j \in 1..Len(bundle) :
                  /\ ~bundle[j].isEntry
                  /\ bundle[j].matchesInclude
                  /\ ~bundle[j].matchesExclude}}

\* Chunks {a, b, entry}: a matches include only, b matches exclude, the
\* entry matches include; generateBundle is over with a alone managed.
C18_Witness ==
  /\ buildPc = "done"
  /\ Len(bundle) = 3
  /\ \E a, b, e \in 1..3 :
       /\ bundle[a].matchesInclude /\ ~bundle[a].matchesExclude
       /\ ~bundle[a].isEntry
       /\ bundle[b].matchesExclude /\ ~bundle[b].isEntry
       /\ bundle[e].isEntry /\ bundle[e].matchesInclude
       /\ ~bundle[e].matchesExclude
       /\ managedChunkNames = {bundle[a].fileName}
       /\ DOMAIN manifest.chunks = {bundle[a].fileName}

----------------------------------------------------------------------------
(* src/unnamed/part_000: the loader that publishes global variables *)

\* Line 19: the records with a hash.
chunksToLoad == DOMAIN manifest.chunks

\* Line 56: `let url = null`.
NoUrl == [blob |-> Null, code |-> <<>>]

AssignedAlways(url) == TRUE

\* Line 81: `if (url && chunk.globalVar)`; every hashed record of the
\* manifest carries a globalVar.
Assigned(url) == url # NoUrl

\* Lines 81-83: the end of one callback of chunksToLoad.map.
SettleLoad(f, url) ==
  /\ window' = IF Assigned(url) THEN (f :> url) @@ window ELSE window
  /\ loads' = [loads EXCEPT ![f] = IF url # NoUrl THEN "url" ELSE "nourl"]

\* Lines 4 and 53-57: the capability is read, and with a store and at least
\* one hashed record every callback runs up to its read request; without,
\* the block is skipped as a whole.
GlobalInitialize ==
  /\ pc = "start"
  /\ probes' = probes + 1
  /\ \E available \in BOOLEAN :
       /\ isCOSAvailable' = available
       /\ IF available /\ chunksToLoad # {}
          THEN /\ loads' = [f \in ChunkNames |->
                              IF f \in chunksToLoad THEN "handles" ELSE "none"]
               /\ cosReads' = [f \in ChunkNames |->
                                 IF f \in chunksToLoad THEN 1 ELSE 0]
               /\ pc' = "loading"
          ELSE /\ pc' = "ready"
               /\ UNCHANGED <<loads, cosReads>>
  /\ UNCHANGED <<buildVars, manifest, served, resolvedUrls, processing,
                 rawContent, stack, res, imported, store, writeState,
                 cosWrites, fetches, cosResult, fetchResult, window>>

\* Lines 26-46 and 57-64: the store answers the read request of one chunk.
\* A file becomes a Blob URL; every miss is followed by fetch(chunk.file).
GlobalRequestFileHandlesDone ==
  /\ pc = "loading"
  /\ \E f \in chunksToLoad :
       /\ loads[f] = "handles"
       /\ LET h == chunksByFileName[f].hash
          IN \E outcome \in {"file"} \cup Misses :
               /\ outcome = "NotFoundError" => h \notin store
               /\ cosResult' = [cosResult EXCEPT ![f] = outcome]
               /\ IF outcome = "file"
                  THEN /\ store' = store \cup {h}
                       /\ SettleLoad(f, BlobUrl(f, BytesOf(h).refs))
                       /\ UNCHANGED fetches
                  ELSE /\ fetches' = [fetches EXCEPT ![f] = @ + 1]
                       /\ loads' = [loads EXCEPT ![f] = "fetch"]
                       /\ UNCHANGED <<store, window>>
  /\ UNCHANGED <<buildVars, manifest, served, pc, isCOSAvailable, resolvedUrls,
                 processing, rawContent, stack, res, imported, writeState,
                 probes, cosReads, cosWrites, fetchResult>>

\* Lines 65-79: the network answers. An ok response becomes a Blob URL and
\* starts an unawaited storeBlobInCOS; a response that is not ok and a
\* rejected fetch are logged and leave url null.
GlobalFetchDone ==
  /\ pc = "loading"
  /\ \E f \in chunksToLoad :
       /\ loads[f] = "fetch"
       /\ \E ok \in BOOLEAN :
            IF ok
            THEN /\ fetchResult' = [fetchResult EXCEPT ![f] = "ok"]
                 /\ cosWrites' = [cosWrites EXCEPT ![f] = @ + 1]
                 /\ writeState' = [writeState EXCEPT ![f] = "pending"]
                 /\ SettleLoad(f, BlobUrl(f, served[f]))
            ELSE /\ fetchResult' = [fetchResult EXCEPT ![f] = "failed"]
                 /\ SettleLoad(f, NoUrl)
                 /\ UNCHANGED <<cosWrites, writeState>>
  /\ UNCHANGED <<buildVars, manifest, served, pc, isCOSAvailable, resolvedUrls,
                 processing, rawContent, stack, res, imported, store, probes,
                 cosReads, fetches, cosResult>>

\* The callbacks of chunksToLoad.map have all returned.
LoadsSettled == \A f \in chunksToLoad : loads[f] \in {"url", "nourl"}

\* Lines 54 and 87-93: after the awaited Promise.all, or at once when the
\* block was skipped, import(mainEntry.file).
GlobalStartApp ==
  /\ \/ pc = "ready"
     \/ pc = "loading" /\ LoadsSettled
  /\ imported' = <<"file", mainEntry.fileName>>
  /\ pc' = "done"
  /\ UNCHANGED <<buildVars, globalVars, manifest, served, isCOSAvailable,
                 resolvedUrls, processing, rawContent, stack, res, store,
                 writeState, probes, cosReads, cosWrites, fetches, cosResult,
                 fetchResult>>

\* Runs over up to MaxChunks hashed records and the index record of the
\* entry chunk; the code of a chunk plays no part in this loader.
InitGlobal ==
  /\ \E managed \in ManagedSets :
       /\ manifest = ManifestOf([f \in managed |-> <<>>], EntryName, {})
       /\ served = [f \in managed |-> <<>>]
  /\ pc = "start"
  /\ isCOSAvailable = FALSE
  /\ resolvedUrls = <<>>
  /\ processing = {}
  /\ rawContent = <<>>
  /\ stack = <<>>
  /\ res = Unset
  /\ imported = NotImported
  /\ store = {}
  /\ writeState = [f \in ChunkNames |-> "none"]
  /\ probes = 0
  /\ cosReads = [f \in ChunkNames |-> 0]
  /\ cosWrites = [f \in ChunkNames |-> 0]
  /\ fetches = [f \in ChunkNames |-> 0]
  /\ cosResult = [f \in ChunkNames |-> "none"]
  /\ fetchResult = [f \in ChunkNames |-> "none"]
  /\ BuildIdle
  /\ GlobalIdle

NextGlobal ==
  \/ GlobalInitialize
  \/ GlobalRequestFileHandlesDone
  \/ GlobalFetchDone
  \/ GlobalStartApp
  \/ StoreBlobInCOSDone

\* Every read request and every fetch is answered, and the steps of the
\* script itself are taken; a storeBlobInCOS task may never end.
SpecGlobal ==
  /\ InitGlobal
  /\ [][NextGlobal]_vars
  /\ WF_vars(GlobalInitialize)
  /\ WF_vars(GlobalRequestFileHandlesDone)
  /\ WF_vars(GlobalFetchDone)
  /\ WF_vars(GlobalStartApp)

----------------------------------------------------------------------------
(* Properties of the loader that publishes global variables *)

\* A Blob URL was obtained for f, from the store or from an ok response.
UrlObtained(f) == cosResult[f] = "file" \/ fetchResult[f] = "ok"

\* C21: the import of the entry module is issued in every run, and only
\* once every chunk load has settled, whether the store is missing, a chunk
\* is not in the store or its fetch fails; at every moment after its load
\* settled, a chunk's global variable is set exactly when a Blob URL was
\* obtained for it, and no global variable is set otherwise.
C21_NetworkFallback ==
  /\ <>(imported = <<"file", mainEntry.fileName>>)
  /\ [](imported # NotImported => LoadsSettled \/ ~isCOSAvailable)
  /\ [](\A f \in ChunkNames :
          /\ f \in DOMAIN window => f \in chunksToLoad /\ UrlObtained(f)
          /\ f \in chunksToLoad /\ loads[f] \in {"url", "nourl"}
               => (f \in DOMAIN window <=> UrlObtained(f)))

C21_Witness ==
  /\ imported = <<"file", mainEntry.fileName>>
  /\ cosResult["a.js"] = "file" /\ "a.js" \in DOMAIN window
  /\ fetchResult["b.js"] = "ok" /\ "b.js" \in DOMAIN window
  /\ fetchResult["c.js"] = "failed" /\ "c.js" \notin DOMAIN window

----------------------------------------------------------------------------
(* Properties of resolveChunk *)

\* The identifiers whose resolveChunk invocation is on the call chain.
Active == {stack[i].fileName : i \in DOMAIN stack}

\* The state of an identifier: Resolving while an invocation for it is
\* active, Resolved with an entry in resolvedUrls, Failed once its invocation
\* has returned null from line 100 or line 104 (which leave it in
\* processing), Unresolved before anything asked for it.
ResolutionState(f) ==
  IF f \in Active THEN "Resolving"
  ELSE IF f \in DOMAIN resolvedUrls THEN "Resolved"
  ELSE IF f \in processing THEN "Failed"
  ELSE "Unresolved"

\* C22: every step of a run moves an identifier along Unresolved ->
\* Resolving -> {Resolved | Failed} or leaves its state alone (an identifier
\* without a record passes through Resolving within one synchronous step);
\* an entry of resolvedUrls is never replaced or removed; and an identifier
\* whose load failed stays Failed, is never loaded again and never gets an
\* entry in resolvedUrls.
C22_StateMachine ==
  /\ [][\A f \in FileNames :
          /\ ResolutionState(f)' # ResolutionState(f)
               => \/ /\ ResolutionState(f) = "Unresolved"
                     /\ ResolutionState(f)' = "Resolving"
                  \/ /\ ResolutionState(f) = "Unresolved"
                     /\ ResolutionState(f)' = "Failed"
                     /\ f \notin DOMAIN chunksByFileName
                  \/ /\ ResolutionState(f) = "Resolving"
                     /\ ResolutionState(f)' \in {"Resolved", "Failed"}
          /\ f \in DOMAIN resolvedUrls
               => /\ f \in DOMAIN resolvedUrls'
                  /\ resolvedUrls'[f] = resolvedUrls[f]]_vars
  /\ [](\A f \in ChunkNames :
          /\ f \in Active => f \notin DOMAIN resolvedUrls
          /\ fetchResult[f] = "failed"
               => ResolutionState(f) = "Failed" /\ fetches[f] = 1)

C22_Witness ==
  /\ pc = "done"
  /\ ResolutionState("a.js") = "Resolved"
  /\ ResolutionState("c.js") = "Resolved"
  /\ fetchResult["b.js"] = "failed"
  /\ ResolutionState("b.js") = "Failed"
  /\ RefersTo("a.js", "b.js") /\ RefersTo("c.js", "b.js")
  /\ ResolutionState(EntryName) = "Unresolved"

\* C23: a resolved chunk that lies on no cycle and whose managed
\* dependencies are all resolved holds no reference to a managed chunk that
\* is still a relative specifier, whatever the form of the reference; and
\* every managed chunk a resolved chunk refers to, in any form, has been
\* asked for by the loader.
C23_CompleteSubstitution ==
  \A f \in Resolved :
    /\ (/\ ~OnCycle(f)
        /\ \A g \in Managed : RefersTo(f, g) => g \in Resolved)
         => \A i \in 1..Len(Materialized(f)) :
              Materialized(f)[i].dep \in Managed => Materialized(f)[i].url
    /\ \A g \in Managed : RefersTo(f, g) => g \in Resolved \cup processing

\* C24: an invocation of resolveChunk that ends with the chunk in
\* resolvedUrls and did not find it there at line 85 is the only one that
\* ever materializes that chunk, and every replacement an importer holds for
\* a chunk is the shimUrl stored in that chunk's resolvedUrls entry.
C24_SingleInstance ==
  /\ [][\A f \in ChunkNames :
          (f \in Active /\ f \notin Active' /\ f \in DOMAIN resolvedUrls')
            => f \notin DOMAIN resolvedUrls]_vars
  /\ [](\A i \in DOMAIN stack :
          \A j \in DOMAIN stack[i].replacements :
            LET r == stack[i].replacements[j]
            IN /\ r.dep \in DOMAIN resolvedUrls
               /\ r.url = resolvedUrls[r.dep].shimUrl)

\* Two importers of b.js hold its shim at once: a.js, still resolving, got
\* it first, and c.js, asked for by a.js, got the stored record.
C24_Witness ==
  /\ Len(stack) = 2
  /\ stack[1].fileName = "a.js" /\ stack[2].fileName = "c.js"
  /\ \E j \in DOMAIN stack[1].replacements : stack[1].replacements[j].dep = "b.js"
  /\ \E j \in DOMAIN stack[2].replacements : stack[2].replacements[j].dep = "b.js"
  /\ cosReads["b.js"] + fetches["b.js"] <= 2

\* C25: at every point of a run `processing` holds exactly the identifiers
\* whose resolveChunk invocation is active on the call chain, and it is
\* empty once the top-level call has returned.
C25_CycleGuardAccurate ==
  /\ processing = Active
  /\ Returned => processing = {}

----------------------------------------------------------------------------
(* Properties of the rewrite loop of generateBundle *)

\* C26: once Step 2 is over, no statement has been replaced more than once,
\* none has been replaced by the pass of a chunk other than the one it
\* refers to, every replaced statement reads "./<output path of its
\* target>", and running the inner loop over a chunk once more leaves its
\* text as it is.
C26_RewriteOnce ==
  RewritingDone =>
    \A i \in 1..Len(bundle) :
      /\ \A j \in 1..Len(bundle[i].code) :
           LET ref == bundle[i].code[j]
           IN /\ Len(ref.rewrittenFor) <= 1
              /\ \A k \in 1..Len(ref.rewrittenFor) :
                   ref.rewrittenFor[k] = ref.target
              /\ ref.rewrittenFor # <<>>
                   => ref.spec = BareSpecifier(ref.target)
      /\ Statements(RewriteDeps(bundle[i].code, bundle[i], 1))
           = Statements(bundle[i].code)

====
